---- MODULE Spec2Model ----
(***************************************************************************)
(* A model of the lmstudio-mcp server (index.ts): the tool registry that   *)
(* is filled at module load, main()'s connect-or-exit start-up, the shared *)
(* request forwarder makeRequest and the tool handlers built on it.        *)
(*                                                                         *)
(* JavaScript strings that the program builds by interpolation are kept as *)
(* sequences of string fragments: the JavaScript string is the             *)
(* concatenation of the fragments.  JavaScript values that come out of     *)
(* JSON.parse are tagged records, objects keeping their keys in order.     *)
(***************************************************************************)
EXTENDS Integers, Sequences, FiniteSets, TLC

VARIABLES peer, pc, registeredTools, argv, stderr, stdout, exitCode,
          invoked, pending, fetchCalls, last, listed

vars == <<peer, pc, registeredTools, argv, stderr, stdout, exitCode,
          invoked, pending, fetchCalls, last, listed>>

----------------------------------------------------------------------------
(* Bounds of the model. *)

\* tools/call requests the client sends in one run
MaxInvocations == 2

\* tools/call requests the client sends in one run to a server whose peer
\* may answer with JSON of any shape
MaxSolo == 1

\* tools/list requests the client sends in one run
MaxLists == 1

----------------------------------------------------------------------------
(* JavaScript values. *)

JUndefined == [t |-> "undefined"]
JNull == [t |-> "null"]
JStr(s) == [t |-> "string", s |-> s]
JNum(n) == [t |-> "number", n |-> n]
JArr(a) == [t |-> "array", a |-> a]
\* o is a sequence of [k |-> key, v |-> value], in insertion order, keys distinct
JObj(o) == [t |-> "object", o |-> o]
\* an instance of Error carrying message (a sequence of fragments)
JError(name, message) == [t |-> "error", name |-> name, message |-> message]

Prop(k, v) == [k |-> k, v |-> v]

Nullish(v) == v.t \in {"undefined", "null"}

\* ToBoolean, as `||` and `if (...)` apply it
Truthy(v) ==
    CASE v.t \in {"undefined", "null"} -> FALSE
      [] v.t = "string" -> v.s # ""
      [] v.t = "number" -> v.n # 0
      [] OTHER -> TRUE

\* a || b
Or(a, b) == IF Truthy(a) THEN a ELSE b

HasKey(v, k) == v.t = "object" /\ \E i \in 1..Len(v.o) : v.o[i].k = k

\* v.k for a v that is neither null nor undefined (the caller raises the
\* TypeError for those); a missing property reads as undefined
Get(v, k) ==
    CASE v.t = "object" ->
           IF HasKey(v, k)
           THEN v.o[CHOOSE i \in 1..Len(v.o) : v.o[i].k = k].v
           ELSE JUndefined
      [] v.t = "array" /\ k = "length" -> JNum(Len(v.a))
      [] OTHER -> JUndefined

\* v?.k
OptGet(v, k) == IF Nullish(v) THEN JUndefined ELSE Get(v, k)

\* v?.[0]
OptFirst(v) ==
    CASE Nullish(v) -> JUndefined
      [] v.t = "array" -> IF Len(v.a) >= 1 THEN v.a[1] ELSE JUndefined
      [] v.t = "object" -> Get(v, "0")
      [] v.t = "number" -> JUndefined

\* v.length === 0
LengthIsZero(v) ==
    CASE v.t = "array" -> Len(v.a) = 0
      [] v.t = "string" -> v.s = ""
      [] v.t = "object" -> Get(v, "length") = JNum(0)
      [] OTHER -> FALSE

RECURSIVE ToStrThrows(_)
\* Whether converting v to a string (in a template literal) raises a
\* TypeError: an object parsed from JSON whose own "toString" shadows
\* Object.prototype.toString with something that cannot be called
ToStrThrows(v) ==
    CASE v.t = "object" -> HasKey(v, "toString")
      [] v.t = "array" -> \E i \in 1..Len(v.a) : ToStrThrows(v.a[i])
      [] OTHER -> FALSE

RECURSIVE ToStr(_)
RECURSIVE JoinComma(_)
\* Array.prototype.join(","): null and undefined elements give ""
JoinComma(a) ==
    IF Len(a) = 0 THEN <<>>
    ELSE LET h == IF Nullish(a[1]) THEN <<>> ELSE ToStr(a[1])
         IN IF Len(a) = 1 THEN h ELSE h \o <<",">> \o JoinComma(Tail(a))

\* `${v}` for a v on which ToStrThrows is false, as fragments
ToStr(v) ==
    CASE v.t = "undefined" -> <<"undefined">>
      [] v.t = "null" -> <<"null">>
      [] v.t = "string" -> <<v.s>>
      [] v.t = "number" -> <<ToString(v.n)>>
      [] v.t = "array" -> JoinComma(v.a)
      [] v.t = "object" -> <<"[object Object]">>

----------------------------------------------------------------------------
(* JSON.stringify. *)

Spaces(n) == [i \in 1..n |-> " "]

\* the line break and indentation JSON.stringify emits when gap > 0
Break(gap, cur) == IF gap = 0 THEN <<>> ELSE <<"\n">> \o Spaces(cur)

\* the escaping JSON.stringify applies inside a string literal; of the
\* strings of this model only the one holding double quotes is changed
JSONEscape(s) == IF s = "say \"hi\"" THEN "say \\\"hi\\\"" ELSE s

Quote(s) == <<"\"", JSONEscape(s), "\"">>

RECURSIVE Stringify(_, _, _)
RECURSIVE StringifyItems(_, _, _)
RECURSIVE StringifyProps(_, _, _)

\* the elements of an array, each on its own line when gap > 0;
\* undefined elements are written as null
StringifyItems(a, gap, cur) ==
    IF Len(a) = 0 THEN <<>>
    ELSE LET h == Break(gap, cur)
                  \o (IF a[1].t = "undefined" THEN <<"null">>
                      ELSE Stringify(a[1], gap, cur))
         IN IF Len(a) = 1 THEN h
            ELSE h \o <<",">> \o StringifyItems(Tail(a), gap, cur)

\* the properties of an object in insertion order
StringifyProps(o, gap, cur) ==
    IF Len(o) = 0 THEN <<>>
    ELSE LET h == Break(gap, cur) \o Quote(o[1].k)
                  \o (IF gap = 0 THEN <<":">> ELSE <<":", " ">>)
                  \o Stringify(o[1].v, gap, cur)
         IN IF Len(o) = 1 THEN h
            ELSE h \o <<",">> \o StringifyProps(Tail(o), gap, cur)

\* JSON.stringify(v, null, gap) of a v that is not undefined, at
\* indentation cur
Stringify(v, gap, cur) ==
    CASE v.t = "null" -> <<"null">>
      [] v.t = "string" -> Quote(v.s)
      [] v.t = "number" -> <<ToString(v.n)>>
      [] v.t = "array" ->
           IF Len(v.a) = 0 THEN <<"[]">>
           ELSE <<"[">> \o StringifyItems(v.a, gap, cur + gap)
                \o Break(gap, cur) \o <<"]">>
      [] v.t = "object" ->
           LET present == SelectSeq(v.o, LAMBDA p : p.v.t # "undefined")
           IN IF Len(present) = 0 THEN <<"{}">>
              ELSE <<"{">> \o StringifyProps(present, gap, cur + gap)
                   \o Break(gap, cur) \o <<"}">>

JSONStringify(v) == Stringify(v, 0, 0)

JSONStringifyPretty(v) == Stringify(v, 2, 0)

----------------------------------------------------------------------------
(* The request forwarder. *)

LM_STUDIO_BASE_URL == "http://localhost:1234"

V1 == "/v1"

\* process.argv.slice(2)
SliceArgs(a) == SubSeq(a, 3, Len(a))

\* args.findIndex(arg => arg === '--base-url'), a 0-based index or -1
BaseUrlIndex(args) ==
    IF \E i \in 1..Len(args) : args[i] = "--base-url"
    THEN (CHOOSE i \in 1..Len(args) :
             /\ args[i] = "--base-url"
             /\ \A j \in 1..(i - 1) : args[j] # "--base-url") - 1
    ELSE -1

\* the value after the flag, or null
BaseUrlFromArgs(args) ==
    LET baseUrlIndex == BaseUrlIndex(args)
    IN IF baseUrlIndex # -1 /\ baseUrlIndex + 1 < Len(args)
       THEN JStr(args[baseUrlIndex + 2])
       ELSE JNull

\* the URL with /v1 joined to the default base only
RequestUrlBareCustomBase(args, endpoint) ==
    IF Truthy(BaseUrlFromArgs(args))
    THEN ToStr(BaseUrlFromArgs(args)) \o <<endpoint>>
    ELSE <<LM_STUDIO_BASE_URL, V1, endpoint>>

\* `${baseUrlFromArgs || LM_STUDIO_BASE_URL}${V1}${endpoint}`
RequestUrl(args, endpoint) ==
    ToStr(Or(BaseUrlFromArgs(args), JStr(LM_STUDIO_BASE_URL)))
    \o <<V1, endpoint>>

\* { ...a, ...b } on objects kept as functions from key to value
Spread(a, b) ==
    [k \in DOMAIN a \cup DOMAIN b |-> IF k \in DOMAIN b THEN b[k] ELSE a[k]]

NoProps == [k \in {} |-> ""]

\* the second argument of fetch:
\* { headers: { 'Content-Type': ..., ...options.headers }, ...options }
FetchInit(options) ==
    LET extra == IF "headers" \in DOMAIN options THEN options["headers"]
                 ELSE NoProps
        headers == Spread([k \in {"Content-Type"} |-> "application/json"], extra)
    IN Spread([k \in {"headers"} |-> headers], options)

\* the call makeRequest makes: fetch(url, init)
FetchCall(args, endpoint, options) ==
    [url |-> RequestUrl(args, endpoint), init |-> FetchInit(options)]

\* how an evaluation ends: with a value, or by throwing
Normal(v) == [thrown |-> FALSE, value |-> v]

Throw(e) == [thrown |-> TRUE, error |-> e]

\* error instanceof Error ? error.message : String(error)
ErrText(error) == IF error.t = "error" THEN error.message ELSE ToStr(error)

\* response.ok
ResponseOk(status) == status >= 200 /\ status < 300

\* makeRequest without its response.ok test
MakeRequestSettleNoStatusCheck(outcome) ==
    IF outcome.kind = "rejected"
    THEN Throw(JError("Error", <<"LM Studio API request failed: ">>
                               \o ErrText(outcome.reason)))
    ELSE IF ~outcome.body.valid
    THEN Throw(JError("Error", <<"LM Studio API response parsing failed: ">>
                               \o ErrText(outcome.body.error)))
    ELSE Normal(outcome.body.json)

\* makeRequest letting the error of response.json() through as it is
MakeRequestSettleRawParseError(outcome) ==
    IF outcome.kind = "rejected"
    THEN Throw(JError("Error", <<"LM Studio API request failed: ">>
                               \o ErrText(outcome.reason)))
    ELSE IF ~ResponseOk(outcome.status)
    THEN Throw(JError("Error", <<"LM Studio API request failed: HTTP ",
                                 ToString(outcome.status), ": ",
                                 outcome.statusText>>))
    ELSE IF ~outcome.body.valid
    THEN Throw(outcome.body.error)
    ELSE Normal(outcome.body.json)

\* what makeRequest does once fetch has settled with outcome: the value it
\* returns or the Error it throws
MakeRequestSettle(outcome) ==
    IF outcome.kind = "rejected"
    THEN Throw(JError("Error", <<"LM Studio API request failed: ">>
                               \o ErrText(outcome.reason)))
    ELSE IF ~ResponseOk(outcome.status)
    THEN Throw(JError("Error", <<"LM Studio API request failed: HTTP ",
                                 ToString(outcome.status), ": ",
                                 outcome.statusText>>))
    ELSE IF ~outcome.body.valid
    THEN Throw(JError("Error", <<"LM Studio API response parsing failed: ">>
                               \o ErrText(outcome.body.error)))
    ELSE Normal(outcome.body.json)

----------------------------------------------------------------------------
(* The tool handlers. *)

\* the character U+274C that opens every failure text
CrossMark == "(U+274C)"

TextContent(text) == [content |-> <<[type |-> "text", text |-> text]>>]

TypeError(message) == JError("TypeError", <<message>>)

\* an echo that returns the text without the "Echo: " in front
EchoHandlerBare(text) == Normal(TextContent(<<text>>))

\* the echo handler
EchoHandler(text) == Normal(TextContent(<<"Echo: ", text>>))

\* model.id || model.name || 'Unknown Model'
ModelLabel(model) ==
    Or(Or(Get(model, "id"), Get(model, "name")), JStr("Unknown Model"))

\* the map callback numbering from the 0-based index
ModelLineZeroBased(model, index) ==
    IF Nullish(model)
    THEN Throw(TypeError("Cannot read properties of null (reading 'id')"))
    ELSE IF ToStrThrows(ModelLabel(model))
    THEN Throw(TypeError("Cannot convert object to primitive value"))
    ELSE Normal(<<ToString(index), ". ">> \o ToStr(ModelLabel(model)))

\* the callback of models.map on the element at 0-based index
ModelLine(model, index) ==
    IF Nullish(model)
    THEN Throw(TypeError("Cannot read properties of null (reading 'id')"))
    ELSE IF ToStrThrows(ModelLabel(model))
    THEN Throw(TypeError("Cannot convert object to primitive value"))
    ELSE Normal(<<ToString(index + 1), ". ">> \o ToStr(ModelLabel(model)))

RECURSIVE JoinLines(_)
\* lines.join('\n')
JoinLines(lines) ==
    IF Len(lines) = 0 THEN <<>>
    ELSE IF Len(lines) = 1 THEN lines[1]
    ELSE lines[1] \o <<"\n">> \o JoinLines(Tail(lines))

\* models.map(...).join('\n'): the first callback that throws ends the map
ModelList(models) ==
    LET mapped == [i \in 1..Len(models) |-> ModelLine(models[i], i - 1)]
        bad == {i \in 1..Len(models) : mapped[i].thrown}
    IN IF bad # {}
       THEN mapped[CHOOSE i \in bad : \A j \in bad : i <= j]
       ELSE Normal(JoinLines([i \in 1..Len(models) |-> mapped[i].value]))

\* the try block of lmstudio_list_models after makeRequest has settled
ListModelsTry(settled) ==
    IF settled.thrown THEN settled
    ELSE IF Nullish(settled.value)
    THEN Throw(TypeError("Cannot read properties of null (reading 'data')"))
    ELSE LET models == Or(Get(settled.value, "data"), JArr(<<>>))
         IN IF LengthIsZero(models)
            THEN Normal(TextContent(<<"No models found in LM Studio. Make sure you have loaded models in LM Studio.">>))
            ELSE IF models.t # "array"
            THEN Throw(TypeError("models.map is not a function"))
            ELSE LET modelList == ModelList(models.a)
                 IN IF modelList.thrown THEN modelList
                    ELSE Normal(TextContent(
                           <<"Available LM Studio Models (",
                             ToString(Len(models.a)), " total):\n\n">>
                           \o modelList.value))

ListModelsCatch(error) ==
    TextContent(<<CrossMark, " Failed to list models\nError: ">>
                \o ErrText(error))

\* lmstudio_list_models without its try/catch
ListModelsHandlerUncaught(settled) == ListModelsTry(settled)

\* try { ... } catch (error) { ... }: what is thrown inside the try is
\* handed to the catch clause, whose text is returned
ListModelsHandler(settled) ==
    IF ListModelsTry(settled).thrown
    THEN Normal(ListModelsCatch(ListModelsTry(settled).error))
    ELSE ListModelsTry(settled)

\* response.choices?.[0]?.message?.content
FirstChoiceContent(response) ==
    OptGet(OptGet(OptFirst(Get(response, "choices")), "message"), "content")

\* the try block of lmstudio_get_current_model after makeRequest has settled
GetCurrentModelTry(settled) ==
    IF settled.thrown THEN settled
    ELSE IF Nullish(settled.value)
    THEN Throw(TypeError("Cannot read properties of null (reading 'model')"))
    ELSE LET modelInfo == Or(Get(settled.value, "model"), JStr("unknown"))
             message == Or(FirstChoiceContent(settled.value), JStr("No response"))
         IN IF ToStrThrows(modelInfo) \/ ToStrThrows(message)
            THEN Throw(TypeError("Cannot convert object to primitive value"))
            ELSE Normal(TextContent(<<"Current Model: ">> \o ToStr(modelInfo)
                                    \o <<"\n\nModel Response: ">> \o ToStr(message)))

GetCurrentModelCatch(error) ==
    TextContent(<<CrossMark, " Failed to get current model\nError: ">>
                \o ErrText(error)
                \o <<"\n\nNote: Make sure a model is loaded and running in LM Studio.">>)

\* try { ... } catch (error) { ... }: what is thrown inside the try is
\* handed to the catch clause, whose text is returned
GetCurrentModelHandler(settled) ==
    IF GetCurrentModelTry(settled).thrown
    THEN Normal(GetCurrentModelCatch(GetCurrentModelTry(settled).error))
    ELSE GetCurrentModelTry(settled)

\* the try block of lmstudio_chat_completion after makeRequest has settled
ChatCompletionTry(settled) ==
    IF settled.thrown THEN settled
    ELSE IF Nullish(settled.value)
    THEN Throw(TypeError("Cannot read properties of null (reading 'choices')"))
    ELSE LET completion == Or(FirstChoiceContent(settled.value),
                              JStr("No response generated"))
             model == Or(Get(settled.value, "model"), JStr("unknown"))
             usage == Or(Get(settled.value, "usage"), JObj(<<>>))
         IN IF ToStrThrows(model) \/ ToStrThrows(completion)
            THEN Throw(TypeError("Cannot convert object to primitive value"))
            ELSE Normal(TextContent(<<"**Model:** ">> \o ToStr(model)
                                    \o <<"\n\n**Response:**\n">> \o ToStr(completion)
                                    \o <<"\n\n**Usage:** ">>
                                    \o JSONStringifyPretty(usage)))

ChatCompletionCatch(error) ==
    TextContent(<<CrossMark, " Failed to generate completion\nError: ">>
                \o ErrText(error)
                \o <<"\n\nNote: Make sure a model is loaded and running in LM Studio.">>)

\* try { ... } catch (error) { ... }: what is thrown inside the try is
\* handed to the catch clause, whose text is returned
ChatCompletionHandler(settled) ==
    IF ChatCompletionTry(settled).thrown
    THEN Normal(ChatCompletionCatch(ChatCompletionTry(settled).error))
    ELSE ChatCompletionTry(settled)

\* the messages with the user's pushed before the system one
ChatMessagesUserFirst(prompt, system_prompt) ==
    <<JObj(<<Prop("role", JStr("user")), Prop("content", JStr(prompt))>>)>>
    \o (IF Truthy(system_prompt)
        THEN <<JObj(<<Prop("role", JStr("system")), Prop("content", system_prompt)>>)>>
        ELSE <<>>)

\* the messages with a stock system message when none is given
ChatMessagesDefaultSystem(prompt, system_prompt) ==
    <<JObj(<<Prop("role", JStr("system")),
             Prop("content", Or(system_prompt, JStr("You are a helpful assistant.")))>>),
      JObj(<<Prop("role", JStr("user")), Prop("content", JStr(prompt))>>)>>

\* the messages kept in one array of the module, so that a call finds
\* in it the user message of a chat call still waiting
ChatMessagesSharedArray(prompt, system_prompt) ==
    LET waiting == {i \in DOMAIN pending :
                      pending[i].tool = "lmstudio_chat_completion"}
        first == CHOOSE i \in waiting : \A j \in waiting : i <= j
    IN (IF waiting = {} THEN <<>>
        ELSE <<JObj(<<Prop("role", JStr("user")),
                      Prop("content", JStr(pending[first].args.prompt))>>)>>)
       \o (IF Truthy(system_prompt)
           THEN <<JObj(<<Prop("role", JStr("system")),
                         Prop("content", system_prompt)>>)>>
           ELSE <<>>)
       \o <<JObj(<<Prop("role", JStr("user")), Prop("content", JStr(prompt))>>)>>

\* the messages lmstudio_chat_completion builds; system_prompt is
\* undefined when the caller left it out
ChatMessages(prompt, system_prompt) ==
    (IF Truthy(system_prompt)
     THEN <<JObj(<<Prop("role", JStr("system")), Prop("content", system_prompt)>>)>>
     ELSE <<>>)
    \o <<JObj(<<Prop("role", JStr("user")), Prop("content", JStr(prompt))>>)>>

\* the options a chat handler passes to makeRequest
ChatOptions(messages) ==
    [method |-> "POST",
     body |-> JSONStringify(JObj(<<Prop("model", JStr("local-model")),
                                   Prop("messages", JArr(messages))>>))]

ProbeMessages ==
    <<JObj(<<Prop("role", JStr("user")),
             Prop("content", JStr("What model are you?"))>>)>>

\* what each LM-Studio-backed handler hands to makeRequest
HandlerEndpoint(tool) ==
    IF tool = "lmstudio_list_models" THEN "/models" ELSE "/chat/completions"

HandlerOptions(tool, args) ==
    CASE tool = "lmstudio_list_models" -> NoProps
      [] tool = "lmstudio_get_current_model" -> ChatOptions(ProbeMessages)
      [] tool = "lmstudio_chat_completion" ->
           ChatOptions(ChatMessages(args.prompt, args.system_prompt))

\* the rest of a handler once its makeRequest has settled
HandlerFinish(tool, settled) ==
    CASE tool = "lmstudio_list_models" -> ListModelsHandler(settled)
      [] tool = "lmstudio_get_current_model" -> GetCurrentModelHandler(settled)
      [] tool = "lmstudio_chat_completion" -> ChatCompletionHandler(settled)

----------------------------------------------------------------------------
(* The registry, as the registerTool calls fill it at module load. *)

Input(name, required) == [name |-> name, required |-> required]

Tool(name, inputSchema) == [name |-> name, inputSchema |-> inputSchema]

\* the registerTool calls of the earlier revision of index.ts, which also
\* registered a health check and two sampling parameters
ToolRegistrationsEarlier ==
    << Tool("echo", <<Input("text", TRUE)>>),
       Tool("lmstudio_health_check", <<>>),
       Tool("lmstudio_list_models", <<>>),
       Tool("lmstudio_get_current_model", <<>>),
       Tool("lmstudio_chat_completion",
            <<Input("prompt", TRUE), Input("system_prompt", FALSE),
              Input("temperature", FALSE), Input("max_tokens", FALSE)>>) >>

\* the server.registerTool calls in program order
ToolRegistrations ==
    << Tool("echo", <<Input("text", TRUE)>>),
       Tool("lmstudio_list_models", <<>>),
       Tool("lmstudio_get_current_model", <<>>),
       Tool("lmstudio_chat_completion",
            <<Input("prompt", TRUE), Input("system_prompt", FALSE)>>) >>

ToolNames(tools) == [i \in 1..Len(tools) |-> tools[i].name]

Registered(name) == \E i \in 1..Len(registeredTools) : registeredTools[i].name = name

----------------------------------------------------------------------------
(* The inputs the environment supplies. *)

\* how many entries the data array of a /models response may hold
MaxModels == 2

Node == <<"node", "src/index.ts">>

\* the command lines the server is started with
Argvs ==
    { Node,
      Node \o <<"--base-url", "http://host:9999">>,
      Node \o <<"--base-url", "">>,
      Node \o <<"--base-url">>,
      Node \o <<"--verbose", "--base-url", "http://host:9999">>,
      Node \o <<"--base-url", "--base-url", "http://host:9999">> }

\* the command lines tried against a peer that answers with any JSON
FewArgvs == { Node, Node \o <<"--base-url", "http://host:9999">> }

Texts == {"", "hello"}

Prompts == {"", "hi"}

SystemPrompts == {JUndefined, JStr(""), JStr("say \"hi\"")}

Rejected(reason) == [kind |-> "rejected", reason |-> reason]

Response(status, statusText, body) ==
    [kind |-> "response", status |-> status, statusText |-> statusText, body |-> body]

JsonBody(v) == [valid |-> TRUE, json |-> v]

BadBody ==
    [valid |-> FALSE,
     error |-> JError("SyntaxError", <<"Unexpected token < in JSON at position 0">>)]

\* the ways a request fails against any peer
CoreFailures ==
    { Rejected(JError("FetchError", <<"connect ECONNREFUSED 127.0.0.1:1234">>)),
      Response(500, "Internal Server Error", BadBody),
      Response(500, "Internal Server Error",
               JsonBody(JObj(<<Prop("error", JStr("model crashed"))>>))),
      Response(200, "OK", BadBody) }

\* the outcomes of fetch that do not depend on the endpoint
FailureOutcomes ==
    CoreFailures \cup
    { Rejected(JStr("aborted")),
      Response(404, "Not Found", JsonBody(JNull)),
      Response(300, "Multiple Choices", JsonBody(JObj(<<>>))),
      Response(204, "No Content", BadBody) }

\* JSON values of every shape a response may have
OddJson ==
    { JNull, JNum(5), JStr("oops"), JArr(<<>>), JObj(<<>>) }

Qwen == JObj(<<Prop("id", JStr("qwen")), Prop("object", JStr("model"))>>)

Llama == JObj(<<Prop("id", JStr("llama")), Prop("name", JStr("Llama 3"))>>)

ModelEntries ==
    { Qwen, Llama, JObj(<<Prop("id", JStr("")), Prop("name", JStr("Phi"))>>), JNull }

BoundedSeqs(S, n) == UNION {[1..k -> S] : k \in 0..n}

ModelsJson ==
    OddJson
    \cup {JObj(<<Prop("data", JArr(a))>>) : a \in BoundedSeqs(ModelEntries, MaxModels)}
    \cup {JObj(<<Prop("data", d)>>) :
            d \in { JNull, JStr("abc"), JObj(<<>>),
                    JObj(<<Prop("length", JNum(0))>>),
                    JArr(<<JObj(<<Prop("object", JStr("model"))>>), JStr("x")>>),
                    JArr(<<JObj(<<Prop("id", JNum(7))>>)>>),
                    JArr(<<JObj(<<Prop("id", JObj(<<Prop("toString", JNum(1))>>))>>)>>) }}

Usage ==
    JObj(<<Prop("prompt_tokens", JNum(4)), Prop("completion_tokens", JNum(2)),
           Prop("total_tokens", JNum(6))>>)

Choice(content) ==
    JObj(<<Prop("index", JNum(0)),
           Prop("message", JObj(<<Prop("role", JStr("assistant")),
                                  Prop("content", content)>>))>>)

Completion ==
    JObj(<<Prop("model", JStr("qwen")),
           Prop("choices", JArr(<<Choice(JStr("Hello")), Choice(JStr("Bye"))>>)),
           Prop("usage", Usage)>>)

ChatJson ==
    OddJson
    \cup { Completion,
           JObj(<<Prop("model", JStr("qwen")), Prop("choices", JArr(<<>>))>>),
           JObj(<<Prop("model", JNull), Prop("choices", JArr(<<Choice(JStr(""))>>))>>),
           JObj(<<Prop("choices", JArr(<<JNull>>)), Prop("usage", JNum(5))>>),
           JObj(<<Prop("choices", JArr(<<JObj(<<>>)>>)), Prop("usage", JArr(<<JNum(1)>>))>>),
           JObj(<<Prop("choices", JNull)>>),
           JObj(<<Prop("choices", JNum(7))>>),
           JObj(<<Prop("choices", JObj(<<Prop("0", Choice(JStr("keyed")))>>))>>),
           JObj(<<Prop("choices", JArr(<<Choice(JArr(<<JStr("a"), JNull, JNum(1)>>))>>))>>),
           JObj(<<Prop("model", JObj(<<Prop("toString", JNum(1))>>)),
                  Prop("choices", JArr(<<Choice(JStr("Hello"))>>))>>),
           JObj(<<Prop("model", JStr("qwen")),
                  Prop("choices", JArr(<<Choice(JObj(<<Prop("toString", JNull)>>))>>))>>) }

\* what fetch may settle with when the peer keeps to the LM Studio API
ContractOutcomes(endpoint) ==
    CoreFailures
    \cup {Response(200, "OK", JsonBody(v)) :
            v \in IF endpoint = "/models"
                  THEN {JObj(<<Prop("data", JArr(<<>>))>>),
                        JObj(<<Prop("data", JArr(<<Qwen, Llama>>))>>)}
                  ELSE {Completion}}

\* everything fetch may settle with for a request to endpoint
AnyOutcomes(endpoint) ==
    FailureOutcomes
    \cup {Response(200, "OK", JsonBody(v)) :
            v \in IF endpoint = "/models" THEN ModelsJson ELSE ChatJson}

Outcomes(endpoint) ==
    IF peer = "contract" THEN ContractOutcomes(endpoint) ELSE AnyOutcomes(endpoint)

\* how many tools/call requests the client sends
Budget == IF peer = "contract" THEN MaxInvocations ELSE MaxSolo

----------------------------------------------------------------------------
(* The process. *)

NoInvocation == [id |-> 0]

Running == <<>>

InitWith(p, argvs) ==
    /\ peer = p
    /\ pc = "load"
    /\ registeredTools = <<>>
    /\ argv \in argvs
    /\ stderr = <<>>
    /\ stdout = 0
    /\ exitCode = Running
    /\ invoked = <<>>
    /\ pending = <<>>
    /\ fetchCalls = 0
    /\ last = NoInvocation
    /\ listed = <<>>

\* the peer keeps to the LM Studio API or fails outright
Init == InitWith("contract", Argvs)

\* the peer answers with JSON of any shape
InitAnyPeer == InitWith("any", FewArgvs)

\* module load: the next server.registerTool call
RegisterTool ==
    /\ pc = "load"
    /\ Len(registeredTools) < Len(ToolRegistrations)
    /\ registeredTools' =
         Append(registeredTools, ToolRegistrations[Len(registeredTools) + 1])
    /\ UNCHANGED <<peer, pc, argv, stderr, stdout, exitCode, invoked, pending,
                   fetchCalls, last, listed>>

\* main() up to its await: the transport is made, the start line written
MainStart ==
    /\ pc = "load"
    /\ Len(registeredTools) = Len(ToolRegistrations)
    /\ stderr' = Append(stderr, <<"LM Studio MCP Server starting...\n">>)
    /\ pc' = "connecting"
    /\ UNCHANGED <<peer, registeredTools, argv, stdout, exitCode, invoked, pending,
                   fetchCalls, last, listed>>

\* server.connect(transport) resolves
ConnectResolves ==
    /\ pc = "connecting"
    /\ stderr' = Append(stderr, <<"LM Studio MCP Server connected successfully\n">>)
    /\ pc' = "serving"
    /\ UNCHANGED <<peer, registeredTools, argv, stdout, exitCode, invoked, pending,
                   fetchCalls, last, listed>>

ConnectErrors ==
    { JError("Error", <<"stdin is closed">>), JStr("already connected") }

\* what main()'s catch clause does with error
MainCatch(error) ==
    [stderr |-> <<"Failed to start server: ">> \o ErrText(error) \o <<"\n">>,
     exit |-> <<1>>]

\* a catch clause that logs and returns without process.exit
ConnectRejectsNoExit ==
    /\ pc = "connecting"
    /\ \E error \in ConnectErrors :
         stderr' = Append(stderr, MainCatch(error).stderr)
    /\ pc' = "serving"
    /\ UNCHANGED <<peer, registeredTools, argv, stdout, exitCode, invoked,
                   pending, fetchCalls, last, listed>>

\* server.connect(transport) rejects
ConnectRejects ==
    /\ pc = "connecting"
    /\ \E error \in ConnectErrors :
         /\ stderr' = Append(stderr, MainCatch(error).stderr)
         /\ exitCode' = MainCatch(error).exit
    /\ pc' = "exited"
    /\ UNCHANGED <<peer, registeredTools, argv, stdout, invoked, pending,
                   fetchCalls, last, listed>>

\* a tools/list request: the registry's definitions in registration order
ToolsList ==
    /\ pc = "serving"
    /\ Len(listed) < MaxLists
    /\ listed' = Append(listed, registeredTools)
    /\ stdout' = stdout + 1
    /\ UNCHANGED <<peer, pc, registeredTools, argv, stderr, exitCode, invoked,
                   pending, fetchCalls, last>>

CanInvoke(tool) ==
    /\ pc = "serving"
    /\ Len(invoked) < Budget
    /\ Registered(tool)

\* tools/call echo: the handler has no await and answers at once
CallEcho ==
    /\ CanInvoke("echo")
    /\ \E text \in Texts :
         last' = [id |-> Len(invoked) + 1, tool |-> "echo",
                  args |-> [text |-> text], completion |-> EchoHandler(text)]
    /\ invoked' = Append(invoked, "echo")
    /\ stdout' = stdout + 1
    /\ UNCHANGED <<peer, pc, registeredTools, argv, stderr, exitCode, pending,
                   fetchCalls, listed>>

\* a handler runs up to the await inside makeRequest: fetch is called
StartHandler(tool, args) ==
    /\ CanInvoke(tool)
    /\ invoked' = Append(invoked, tool)
    /\ pending' = [i \in DOMAIN pending \cup {Len(invoked) + 1} |->
                     IF i \in DOMAIN pending THEN pending[i]
                     ELSE [tool |-> tool, args |-> args,
                           request |-> FetchCall(SliceArgs(argv),
                                                 HandlerEndpoint(tool),
                                                 HandlerOptions(tool, args))]]
    /\ fetchCalls' = fetchCalls + 1
    /\ UNCHANGED <<peer, pc, registeredTools, argv, stderr, stdout, exitCode,
                   last, listed>>

NoArgs == <<>>

CallListModels == StartHandler("lmstudio_list_models", NoArgs)

CallGetCurrentModel == StartHandler("lmstudio_get_current_model", NoArgs)

CallChatCompletion ==
    \E prompt \in Prompts, system_prompt \in SystemPrompts :
        StartHandler("lmstudio_chat_completion",
                     [prompt |-> prompt, system_prompt |-> system_prompt])

\* a forwarder that calls fetch once more after a failed call
FetchSettlesRetrying ==
    /\ pc = "serving"
    /\ \E id \in DOMAIN pending :
         \E outcome \in Outcomes(HandlerEndpoint(pending[id].tool)) :
           IF MakeRequestSettle(outcome).thrown /\ fetchCalls < 2 * Budget
           THEN /\ fetchCalls' = fetchCalls + 1
                /\ UNCHANGED <<last, pending, stdout>>
           ELSE /\ last' = [id |-> id, tool |-> pending[id].tool,
                            args |-> pending[id].args,
                            request |-> pending[id].request,
                            outcome |-> outcome,
                            completion |-> HandlerFinish(pending[id].tool,
                                                         MakeRequestSettle(outcome))]
                /\ pending' = [i \in DOMAIN pending \ {id} |-> pending[i]]
                /\ stdout' = stdout + 1
                /\ UNCHANGED fetchCalls
    /\ UNCHANGED <<peer, pc, registeredTools, argv, stderr, exitCode, invoked,
                   listed>>

\* fetch settles for a waiting handler, which runs to its end; the
\* transport writes the answer
FetchSettles ==
    /\ pc = "serving"
    /\ \E id \in DOMAIN pending :
         \E outcome \in Outcomes(HandlerEndpoint(pending[id].tool)) :
           /\ last' = [id |-> id, tool |-> pending[id].tool,
                       args |-> pending[id].args,
                       request |-> pending[id].request,
                       outcome |-> outcome,
                       completion |-> HandlerFinish(pending[id].tool,
                                                    MakeRequestSettle(outcome))]
           /\ pending' = [i \in DOMAIN pending \ {id} |-> pending[i]]
           /\ stdout' = stdout + 1
    /\ UNCHANGED <<peer, pc, registeredTools, argv, stderr, exitCode, invoked,
                   fetchCalls, listed>>

Next ==
    \/ RegisterTool
    \/ MainStart
    \/ ConnectResolves
    \/ ConnectRejects
    \/ ToolsList
    \/ CallEcho
    \/ CallListModels
    \/ CallGetCurrentModel
    \/ CallChatCompletion
    \/ FetchSettles

Spec == Init /\ [][Next]_vars

SpecAnyPeer == InitAnyPeer /\ [][Next]_vars

----------------------------------------------------------------------------
(* Properties. *)

\* an LM-Studio-backed invocation has just been answered
Answered == last.id > 0 /\ last.tool # "echo"

AnsweredText == last.completion.value.content[1].text

Contains(text, fragment) == \E i \in 1..Len(text) : text[i] = fragment

\* fetch rejected, the status was not a success, or the body was not JSON
OutcomeFailed(outcome) ==
    \/ outcome.kind = "rejected"
    \/ outcome.status < 200
    \/ outcome.status > 299
    \/ ~outcome.body.valid

\* C1: whatever fetch settles with (a rejection, a non-success status, a
\* body that is not JSON, JSON of any shape), an LM-Studio-backed handler
\* does not throw: it returns one text block, and a failed call is
\* reported in that text, which then opens with the failure mark.
C1_HandlerNeverThrows ==
    Answered =>
        /\ ~last.completion.thrown
        /\ Len(last.completion.value.content) = 1
        /\ last.completion.value.content[1].type = "text"
        /\ Len(AnsweredText) > 0
        /\ OutcomeFailed(last.outcome) => AnsweredText[1] = CrossMark

\* a handler met JSON null, on which its first property read raises a
\* TypeError, and still answered with a text block
C1_Witness ==
    /\ Answered
    /\ last.outcome.kind = "response"
    /\ last.outcome.status = 200
    /\ last.outcome.body.valid
    /\ last.outcome.body.json = JNull
    /\ ~last.completion.thrown
    /\ AnsweredText[1] = CrossMark

\* C2: after a response with status 500, whatever its body, the tool's
\* text opens with the failure mark and holds the status code 500, and the
\* process is still serving: it has not exited and takes the next call.
C2_Status500Reported ==
    (Answered /\ last.outcome.kind = "response" /\ last.outcome.status = 500) =>
        /\ ~last.completion.thrown
        /\ AnsweredText[1] = CrossMark
        /\ Contains(AnsweredText, "500")
        /\ pc = "serving"
        /\ exitCode = Running
        /\ Len(invoked) < Budget => ENABLED CallListModels

\* a 500 whose body is valid JSON was answered while the client may still
\* send another call
C2_Witness ==
    /\ Answered
    /\ last.outcome.kind = "response"
    /\ last.outcome.status = 500
    /\ last.outcome.body.valid
    /\ Contains(AnsweredText, "500")
    /\ Len(invoked) < Budget
    /\ ENABLED CallListModels

ParsingFailed == "LM Studio API response parsing failed: "

RequestFailed == "LM Studio API request failed: "

\* C3: a success status with a body that is not JSON yields a text that
\* carries the "response parsing failed" message and not the "request
\* failed" one; a rejected fetch or a non-success status yields the
\* "request failed" message family and never the parsing one.
C3_ParsingFailureReported ==
    Answered =>
        /\ (/\ last.outcome.kind = "response"
            /\ ResponseOk(last.outcome.status)
            /\ ~last.outcome.body.valid)
           => /\ ~last.completion.thrown
              /\ AnsweredText[1] = CrossMark
              /\ Contains(AnsweredText, ParsingFailed)
              /\ ~Contains(AnsweredText, RequestFailed)
        /\ (\/ last.outcome.kind = "rejected"
            \/ ~ResponseOk(last.outcome.status))
           => ~Contains(AnsweredText, ParsingFailed)

\* a 200 response whose body is not JSON was answered with the parsing
\* failure text
C3_Witness ==
    /\ Answered
    /\ last.outcome.kind = "response"
    /\ last.outcome.status = 200
    /\ ~last.outcome.body.valid
    /\ Contains(AnsweredText, ParsingFailed)

\* the calls to fetch the state shows: those of the waiting handlers, by
\* their invocation number, and under 0 that of the handler answered last
Issued == DOMAIN pending \cup (IF Answered THEN {0} ELSE {})

IssuedBy(i) == IF i = 0 THEN last ELSE pending[i]

Message(role, content) ==
    JObj(<<Prop("role", JStr(role)), Prop("content", JStr(content))>>)

\* the body of a chat request carrying messages
BodyWith(messages) ==
    JSONStringify(JObj(<<Prop("model", JStr("local-model")),
                         Prop("messages", JArr(messages))>>))

IsChat(r) == r.tool = "lmstudio_chat_completion"

PostsToChat(r) ==
    /\ r.request.url[Len(r.request.url)] = "/chat/completions"
    /\ r.request.init["method"] = "POST"

SystemThenUser(r) ==
    r.request.init["body"] =
        BodyWith(<<Message("system", r.args.system_prompt.s),
                   Message("user", r.args.prompt)>>)

UserAlone(r) ==
    r.request.init["body"] = BodyWith(<<Message("user", r.args.prompt)>>)

\* C4 as claimed: with system_prompt set to any string, the empty one
\* included, the forwarded messages are [system, user].
C4_AnySystemPromptForwarded ==
    \A n \in Issued : LET r == IssuedBy(n) IN (
        (IsChat(r) /\ r.args.system_prompt.t = "string") => SystemThenUser(r))

\* C4, amended: with system_prompt set to a string that is not empty, the
\* forwarded messages are exactly [system, user], carrying system_prompt
\* and prompt; with the empty string only the user message is forwarded.
C4_SystemThenUser ==
    \A n \in Issued : LET r == IssuedBy(n) IN (
        (IsChat(r) /\ r.args.system_prompt.t = "string") =>
            /\ PostsToChat(r)
            /\ r.args.system_prompt.s # "" => SystemThenUser(r)
            /\ r.args.system_prompt.s = "" => UserAlone(r))

\* a chat call with a system prompt that is not empty is on its way
C4_Witness ==
    \E n \in Issued : LET r == IssuedBy(n) IN (
        /\ IsChat(r)
        /\ r.args.system_prompt = JStr("say \"hi\"")
        /\ r.args.prompt = "hi"
        /\ SystemThenUser(r))

\* C5: with a prompt and no system_prompt, the handler POSTs to
\* /chat/completions a message list of one entry, role user, content the
\* prompt.
C5_UserMessageAlone ==
    \A n \in Issued : LET r == IssuedBy(n) IN (
        (IsChat(r) /\ r.args.system_prompt.t = "undefined") =>
            PostsToChat(r) /\ UserAlone(r))

\* a chat call without system prompt was forwarded and answered
C5_Witness ==
    /\ Answered
    /\ IsChat(last)
    /\ last.args.system_prompt = JUndefined
    /\ last.args.prompt = "hi"
    /\ UserAlone(last)

CommandLine == SubSeq(argv, 3, Len(argv))

FlagAt(i) == i \in 1..Len(CommandLine) /\ CommandLine[i] = "--base-url"

\* the first --base-url on the command line is at i and a value follows it
FirstFlagWithValue(i) ==
    /\ FlagAt(i)
    /\ \A j \in 1..(i - 1) : ~FlagAt(j)
    /\ i < Len(CommandLine)

EndpointOf(r) ==
    IF r.tool = "lmstudio_list_models" THEN "/models" ELSE "/chat/completions"

Targets(r, base) == r.request.url = <<base, "/v1", EndpointOf(r)>>

\* C6 as claimed: without --base-url a request targets
\* http://localhost:1234/v1<endpoint>, and with --base-url U, whatever U
\* is, it targets U/v1<endpoint>.
C6_AnyBaseUrlUsed ==
    \A n \in Issued : LET r == IssuedBy(n) IN (
        /\ (\A i \in 1..Len(CommandLine) : ~FlagAt(i))
           => Targets(r, "http://localhost:1234")
        /\ \A i \in 1..Len(CommandLine) :
             FirstFlagWithValue(i) => Targets(r, CommandLine[i + 1]))

\* C6, amended: without --base-url a request targets
\* http://localhost:1234/v1<endpoint>; with --base-url U and U not empty
\* it targets U/v1<endpoint>; with U empty, or with nothing after the
\* flag, it targets the default again.  /v1 is joined once in every case.
C6_BaseUrlResolution ==
    \A n \in Issued : LET r == IssuedBy(n) IN (
        /\ (\A i \in 1..Len(CommandLine) : ~FirstFlagWithValue(i))
           => Targets(r, "http://localhost:1234")
        /\ \A i \in 1..Len(CommandLine) :
             FirstFlagWithValue(i) =>
                IF CommandLine[i + 1] # ""
                THEN Targets(r, CommandLine[i + 1])
                ELSE Targets(r, "http://localhost:1234"))

\* a request went out to the base URL given after another argument
C6_Witness ==
    /\ argv = Node \o <<"--verbose", "--base-url", "http://host:9999">>
    /\ \E n \in Issued : LET r == IssuedBy(n) IN (
          r.request.url = <<"http://host:9999", "/v1", "/models">>)

BackedInvocations == {i \in 1..Len(invoked) : invoked[i] # "echo"}

\* C7: at every moment the number of fetch calls made equals the number
\* of invocations of LM-Studio-backed tools taken so far, whether they
\* were answered from a success or a failure; echo invocations add none.
C7_OneCallPerInvocation ==
    /\ fetchCalls = Cardinality(BackedInvocations)
    /\ \A id \in DOMAIN pending : id \in BackedInvocations

\* an echo and a backed invocation were both answered, the backed one
\* from a failed call, and fetch was called once
C7_Witness ==
    /\ Len(invoked) = 2
    /\ \E i \in 1..2 : invoked[i] = "echo"
    /\ pending = <<>>
    /\ Answered
    /\ OutcomeFailed(last.outcome)
    /\ fetchCalls = 1

ListAnswered ==
    /\ Answered
    /\ last.tool = "lmstudio_list_models"
    /\ last.outcome.kind = "response"
    /\ ResponseOk(last.outcome.status)
    /\ last.outcome.body.valid

\* the data array of the response answered last
ListData == Get(last.outcome.body.json, "data")

ListHasData ==
    /\ ListAnswered
    /\ last.outcome.body.json.t = "object"
    /\ ListData.t = "array"

\* what a model entry is called: its id, or its name when the id is empty
Identifier(entry) ==
    IF Get(entry, "id").s # "" THEN Get(entry, "id").s ELSE Get(entry, "name").s

RECURSIVE NumberedFrom(_, _)
\* the lines "k. identifier" for entries, counting from k, one per line
NumberedFrom(entries, k) ==
    IF Len(entries) = 0 THEN <<>>
    ELSE <<ToString(k), ". ", Identifier(entries[1])>>
         \o (IF Len(entries) = 1 THEN <<>>
             ELSE <<"\n">> \o NumberedFrom(Tail(entries), k + 1))

\* C8: on an empty data array lmstudio_list_models answers with the "no
\* models found" text; on a data array of n model entries it answers with
\* the heading and n lines, line i being "i. " and the identifier of the
\* i-th entry, in the order of the array.
C8_NumberedModelList ==
    ListHasData =>
        /\ Len(ListData.a) = 0 =>
             AnsweredText = <<"No models found in LM Studio. Make sure you have loaded models in LM Studio.">>
        /\ (Len(ListData.a) > 0
            /\ \A i \in 1..Len(ListData.a) : ListData.a[i] \in ModelEntries \ {JNull})
           => AnsweredText = <<"Available LM Studio Models (",
                                ToString(Len(ListData.a)), " total):\n\n">>
                             \o NumberedFrom(ListData.a, 1)

\* a list of two different models was answered in the order of the array
C8_Witness ==
    /\ ListHasData
    /\ ListData.a = <<Llama, Qwen>>
    /\ AnsweredText = <<"Available LM Studio Models (", "2", " total):\n\n",
                        "1", ". ", "llama", "\n", "2", ". ", "qwen">>

\* the "no models found" answer to an empty data array
C8_WitnessEmpty ==
    /\ ListHasData
    /\ Len(ListData.a) = 0
    /\ Len(AnsweredText) = 1

ExpectedTools ==
    <<"echo", "lmstudio_list_models", "lmstudio_get_current_model",
      "lmstudio_chat_completion">>

ExpectedRegistry(tools) ==
    /\ ToolNames(tools) = ExpectedTools
    /\ tools[4].inputSchema =
         <<[name |-> "prompt", required |-> TRUE],
           [name |-> "system_prompt", required |-> FALSE]>>

FailedToStart(line) == line[1] = "Failed to start server: "

\* C10: a process that has exited did so with code 1 after connect
\* failed: the last line on standard error is the failure message,
\* nothing was written to standard output, and no invocation was taken or
\* forwarded.  A process that is serving has not exited, wrote no failure
\* line, and takes the next call.
C10_ConnectOrExit ==
    /\ pc = "exited" <=> exitCode # Running
    /\ pc = "exited" =>
         /\ exitCode = <<1>>
         /\ FailedToStart(stderr[Len(stderr)])
         /\ stdout = 0
         /\ invoked = <<>>
         /\ fetchCalls = 0
         /\ last = NoInvocation
         /\ ~ENABLED Next
    /\ pc = "serving" =>
         /\ exitCode = Running
         /\ \A i \in 1..Len(stderr) : ~FailedToStart(stderr[i])
         /\ stderr[Len(stderr)] = <<"LM Studio MCP Server connected successfully\n">>
         /\ Len(invoked) < Budget => ENABLED CallEcho

\* the process has exited after a failed connect
C10_Witness ==
    /\ pc = "exited"
    /\ exitCode = <<1>>
    /\ Len(stderr) = 2
    /\ stderr[2] = <<"Failed to start server: ", "stdin is closed", "\n">>

\* C11: for every text, the empty one included, echo answers with one
\* text block whose text is "Echo: " followed by the text; it does not
\* throw and it calls nothing.
C11_EchoReturnsText ==
    (last.id > 0 /\ last.tool = "echo") =>
        /\ ~last.completion.thrown
        /\ Len(last.completion.value.content) = 1
        /\ last.completion.value.content[1].type = "text"
        /\ last.completion.value.content[1].text = <<"Echo: ", last.args.text>>
        /\ last.id \notin DOMAIN pending
        /\ fetchCalls = Cardinality(BackedInvocations)

\* echo answered the empty text while no call to fetch had been made
C11_Witness ==
    /\ last.id > 0
    /\ last.tool = "echo"
    /\ last.args.text = ""
    /\ last.completion.value.content[1].text = <<"Echo: ", "">>
    /\ fetchCalls = 0

\* ---------------------------------------------------------------------
\* makeRequest on its own: called with every shape of RequestOptions

\* an optional property of RequestOptions: <<>> when absent, <<v>> when v
Optional(key, choice) ==
    IF choice = <<>> THEN NoProps ELSE [k \in {key} |-> choice[1]]

Methods == {<<>>, <<"GET">>, <<"POST">>}

Bodies == {<<>>, <<"{}">>}

Authorization == [k \in {"Authorization"} |-> "Bearer x"]

PlainText == [k \in {"Content-Type"} |-> "text/plain"]

ExtraHeaders == {<<>>, <<NoProps>>, <<Authorization>>, <<PlainText>>}

Endpoints == {"/models", "/chat/completions"}

RequestOptions(method, headers, body) ==
    Spread(Spread(Optional("method", method), Optional("headers", headers)),
           Optional("body", body))

InitMakeRequest ==
    /\ peer = "contract"
    /\ pc = "serving"
    /\ registeredTools = <<>>
    /\ argv \in FewArgvs
    /\ stderr = <<>>
    /\ stdout = 0
    /\ exitCode = Running
    /\ invoked = <<>>
    /\ pending = <<>>
    /\ fetchCalls = 0
    /\ last = NoInvocation
    /\ listed = <<>>

\* makeRequest runs up to its await of fetch
MakeRequestCalls ==
    /\ Len(invoked) < MaxSolo
    /\ \E endpoint \in Endpoints, method \in Methods, headers \in ExtraHeaders,
          body \in Bodies :
         LET options == RequestOptions(method, headers, body)
         IN pending' = [i \in DOMAIN pending \cup {Len(invoked) + 1} |->
                          IF i \in DOMAIN pending THEN pending[i]
                          ELSE [tool |-> "makeRequest",
                                args |-> [endpoint |-> endpoint,
                                          options |-> options],
                                request |-> FetchCall(SliceArgs(argv), endpoint,
                                                      options)]]
    /\ invoked' = Append(invoked, "makeRequest")
    /\ fetchCalls' = fetchCalls + 1
    /\ UNCHANGED <<peer, pc, registeredTools, argv, stderr, stdout, exitCode,
                   last, listed>>

\* fetch settles and makeRequest returns or throws
MakeRequestSettles ==
    /\ \E id \in DOMAIN pending :
         \E outcome \in Outcomes(pending[id].args.endpoint) :
           /\ last' = [id |-> id, tool |-> "makeRequest",
                       args |-> pending[id].args,
                       request |-> pending[id].request,
                       outcome |-> outcome,
                       completion |-> MakeRequestSettle(outcome)]
           /\ pending' = [i \in DOMAIN pending \ {id} |-> pending[i]]
    /\ UNCHANGED <<peer, pc, registeredTools, argv, stderr, stdout, exitCode,
                   invoked, fetchCalls, listed>>

NextMakeRequest ==
    \/ MakeRequestCalls
    \/ MakeRequestSettles

SpecMakeRequest == InitMakeRequest /\ [][NextMakeRequest]_vars

SentHeaders(r) == r.request.init["headers"]

CallerHeaders(r) ==
    IF "headers" \in DOMAIN r.args.options THEN r.args.options["headers"]
    ELSE NoProps

\* C12: every request makeRequest issues carries Content-Type, which is
\* application/json unless the caller's extra headers name Content-Type
\* themselves, and carries the caller's extra headers beside it; this for
\* every combination of method, body and extra headers.
C12_ContentTypeAlwaysSent ==
    \A n \in Issued :
        LET r == IssuedBy(n)
        IN /\ "Content-Type" \in DOMAIN SentHeaders(r)
           /\ "Content-Type" \notin DOMAIN CallerHeaders(r) =>
                  SentHeaders(r)["Content-Type"] = "application/json"
           /\ \A k \in DOMAIN CallerHeaders(r) :
                  SentHeaders(r)[k] = CallerHeaders(r)[k]

\* ---------------------------------------------------------------------
\* overlapping invocations

\* two invocations of one tool with the same arguments have issued the
\* same request, whatever else was waiting when each of them started
SameArgsSameRequest ==
    \A m \in Issued, n \in Issued :
        LET q == IssuedBy(m)
            r == IssuedBy(n)
        IN (q.tool = r.tool /\ q.args = r.args) => q.request = r.request

\* a step leaves alone what every other waiting handler holds, and the
\* command line
OthersUntouched ==
    /\ \A i \in DOMAIN pending :
           i \in DOMAIN pending' => pending'[i] = pending[i]
    /\ argv' = argv

\* a handler that stops waiting is the one answered, with the arguments
\* and the request it started with
OwnDelivery ==
    \A i \in DOMAIN pending :
        i \notin DOMAIN pending' =>
            /\ last'.id = i
            /\ last'.tool = pending[i].tool
            /\ last'.args = pending[i].args
            /\ last'.request = pending[i].request

\* an answer that follows an answer of the same tool to the same
\* arguments and, for a tool that calls LM Studio, the same response, is
\* the same answer
SameInputsSameResult ==
    (/\ last.id > 0
     /\ last'.id > 0
     /\ last'.tool = last.tool
     /\ last'.args = last.args
     /\ last.tool # "echo" => last'.outcome = last.outcome)
        => last'.completion = last.completion

\* C13: under every interleaving of overlapping invocations, with the
\* responses arriving in any order, an invocation's request depends on its
\* own arguments only, no step changes what another waiting invocation
\* holds, each response is delivered to the invocation that asked, and
\* the result is fixed by the invocation's arguments and its own response,
\* the same whether it ran beside another or alone.
C13_InvocationsIndependent ==
    /\ []SameArgsSameRequest
    /\ [][OthersUntouched /\ OwnDelivery /\ SameInputsSameResult]_vars

\* two chat calls with the same arguments overlapped, and the second one
\* was answered while the first still waits
C13_Witness ==
    /\ 1 \in DOMAIN pending
    /\ last.id = 2
    /\ last.tool = "lmstudio_chat_completion"
    /\ pending[1].tool = last.tool
    /\ pending[1].args = last.args
    /\ pending[1].request = last.request

====
